---- MODULE Spec2Model ----
(***************************************************************************)
(* Model of the rangeset crate: role-tagged boundary comparison            *)
(* (PositionalBound), the LinearRangeAdder merger, and the RangeSet        *)
(* operations add / union / invert / intersection / difference / contains  *)
(* and the bulk constructor From<Vec<Range<T>>>.                           *)
(*                                                                         *)
(* The scalar type T is modelled as the integers.  Interval endpoints are  *)
(* drawn from the even numbers 2, 4, .., 2*MaxVal and the probes of        *)
(* contains from 1 .. 2*MaxVal+1, so that between, below and above any two *)
(* endpoints there is a probe (the points of a dense order that matter).   *)
(***************************************************************************)
EXTENDS Integers, Sequences, FiniteSets, TLC

\* ---------------------------------------------------------------- bounds
MaxVal == 1

MaxBulk == 2

MaxItems == 2

MaxFeed == 3

MaxOrder == 3

Vals == {2 * i : i \in 1..MaxVal}

Points == 1..(2 * MaxVal + 1)

\* ------------------------------------------------------ std::cmp::Ordering
Less == "Less"

Equal == "Equal"

Greater == "Greater"

T_cmp(l, r) == IF l < r THEN Less ELSE IF l = r THEN Equal ELSE Greater

\* ------------------------------------------------------- std::ops::Bound
Unbounded == [k |-> "Unbounded", v |-> 0]

Included(x) == [k |-> "Included", v |-> x]

Excluded(x) == [k |-> "Excluded", v |-> x]

Bound == {Unbounded} \cup {Included(x) : x \in Vals} \cup {Excluded(x) : x \in Vals}

\* Bound_invert without the swap of Included and Excluded.
Bound_invert_same(b) == b

\* BoundExt::invert
Bound_invert(b) ==
    CASE b.k = "Unbounded" -> Unbounded
      [] b.k = "Excluded" -> Included(b.v)
      [] b.k = "Included" -> Excluded(b.v)

\* ----------------------------------------------------------------- Range
Range_new(from, to) == [start |-> from, end |-> to]

Range_unbound == Range_new(Unbounded, Unbounded)

Range_is_unbound(r) == r.start = Unbounded /\ r.end = Unbounded

Start(b) == [pos |-> "Start", b |-> b]

End(b) == [pos |-> "End", b |-> b]

start_pos(r) == Start(r.start)

end_pos(r) == End(r.end)

\* ------------------------------------------- impl Ord for PositionalBound
\* Each operator follows the arms of its match in source order.
cmp_Start_End(left, right) ==
    CASE left.k = "Included" /\ right.k = "Included" /\ left.v <= right.v -> Less
      [] left.k = "Included" /\ right.k = "Included" /\ ~(left.v <= right.v) -> Greater
      [] left.k = "Included" /\ right.k = "Excluded" -> T_cmp(left.v, right.v)
      [] left.k = "Excluded" /\ right.k = "Included" /\ left.v >= right.v -> Greater
      [] left.k = "Excluded" /\ right.k = "Excluded" /\ left.v >= right.v -> Greater
      [] OTHER -> Less

cmp_Start_Start(left, right) ==
    IF left = right THEN Equal
    ELSE IF left.k = "Unbounded" THEN Less
    ELSE IF right.k = "Unbounded" THEN Greater
    ELSE IF left.k = right.k THEN T_cmp(left.v, right.v)
    ELSE IF left.k = "Included" /\ right.k = "Excluded" /\ left.v > right.v THEN Greater
    ELSE IF left.k = "Excluded" /\ right.k = "Included" /\ left.v >= right.v THEN Greater
    ELSE Less

\* cmp (End vs Start) ordering Included(v) against Excluded(v) at the same
\* value as Greater, while Start vs End is left as it is.
cmp_End_Start_touching(left, right) ==
    CASE left.k = "Included" /\ right.k = "Included" /\ left.v < right.v -> Less
      [] left.k = "Included" /\ right.k = "Included" /\ ~(left.v < right.v) -> Greater
      [] left.k = "Included" /\ right.k = "Excluded" /\ left.v >= right.v -> Greater
      [] left.k = "Included" /\ right.k = "Excluded" /\ ~(left.v >= right.v) -> Less
      [] left.k = "Excluded" /\ right.k = "Included" -> T_cmp(left.v, right.v)
      [] left.k = "Excluded" /\ right.k = "Excluded" /\ left.v <= right.v -> Less
      [] OTHER -> Greater

cmp_End_Start(left, right) ==
    CASE left.k = "Included" /\ right.k = "Included" /\ left.v < right.v -> Less
      [] left.k = "Included" /\ right.k = "Included" /\ ~(left.v < right.v) -> Greater
      [] left.k = "Included" /\ right.k = "Excluded" /\ left.v > right.v -> Greater
      [] left.k = "Included" /\ right.k = "Excluded" /\ ~(left.v > right.v) -> Less
      [] left.k = "Excluded" /\ right.k = "Included" -> T_cmp(left.v, right.v)
      [] left.k = "Excluded" /\ right.k = "Excluded" /\ left.v <= right.v -> Less
      [] OTHER -> Greater

cmp_End_End(left, right) ==
    IF left = right THEN Equal
    ELSE IF left.k = "Unbounded" THEN Greater
    ELSE IF right.k = "Unbounded" THEN Less
    ELSE IF left.k = right.k THEN T_cmp(left.v, right.v)
    ELSE IF left.k = "Included" /\ right.k = "Excluded" /\ left.v >= right.v THEN Greater
    ELSE IF left.k = "Excluded" /\ right.k = "Included" /\ left.v > right.v THEN Greater
    ELSE Less

PositionalBound_cmp(self, other) ==
    CASE self.pos = "Start" /\ other.pos = "End" -> cmp_Start_End(self.b, other.b)
      [] self.pos = "Start" /\ other.pos = "Start" -> cmp_Start_Start(self.b, other.b)
      [] self.pos = "End" /\ other.pos = "Start" -> cmp_End_Start(self.b, other.b)
      [] self.pos = "End" /\ other.pos = "End" -> cmp_End_End(self.b, other.b)

\* impl PartialOrd<T> for PositionalBound<T>
PositionalBound_partial_cmp(self, other) ==
    CASE self.pos = "Start" /\ self.b.k = "Unbounded" -> Less
      [] self.pos = "End" /\ self.b.k = "Unbounded" -> Greater
      [] ((self.pos = "Start" /\ self.b.k = "Included") \/ (self.pos = "End" /\ self.b.k = "Excluded"))
            /\ self.b.v <= other -> Less
      [] ((self.pos = "End" /\ self.b.k = "Included") \/ (self.pos = "Start" /\ self.b.k = "Excluded"))
            /\ self.b.v < other -> Less
      [] OTHER -> Greater

\* Range::contains
Range_contains(r, item) ==
    /\ PositionalBound_partial_cmp(start_pos(r), item) = Less
    /\ PositionalBound_partial_cmp(end_pos(r), item) = Greater

\* -------------------------------------------------------------- RangeSet
\* A RangeSet is the sequence of its items.
RangeSet_empty == << >>

RangeSet_unbound == << Range_unbound >>

RangeSet_is_empty(self) == Len(self) = 0

RangeSet_is_unbound(self) == Len(self) = 1 /\ Range_is_unbound(self[1])

\* RangeSet::contains leaving the scan also when an interval that starts
\* below the probe ends below it.
contains_from_break_early(self, i, other) ==
    IF i > Len(self) THEN FALSE
    ELSE /\ PositionalBound_partial_cmp(start_pos(self[i]), other) = Less
         /\ PositionalBound_partial_cmp(end_pos(self[i]), other) = Greater

\* RangeSet::contains: the scan from item i on, with its early exit.
RECURSIVE contains_from(_, _, _)
contains_from(self, i, other) ==
    IF i > Len(self) THEN FALSE
    ELSE IF PositionalBound_partial_cmp(start_pos(self[i]), other) = Less
         THEN IF PositionalBound_partial_cmp(end_pos(self[i]), other) = Greater
              THEN TRUE
              ELSE contains_from(self, i + 1, other)
         ELSE FALSE

RangeSet_contains(self, other) == contains_from(self, 1, other)

\* ------------------------------------------------------ LinearRangeAdder
\* last is a sequence of length 0 (None) or 1 (Some).  stop is the value
\* returned by the latest call of add.  ok records that the debug_assert of
\* add held on every call so far; the assertion is compiled out of release
\* builds, so add carries on whatever its outcome.
LinearRangeAdder_new == [items |-> << >>, last |-> << >>, stop |-> FALSE, ok |-> TRUE]

last_is_unbounded(ad) == Len(ad.last) = 1 /\ ad.last[1].end = Unbounded

\* LinearRangeAdder::add taking the incoming upper boundary on every merge,
\* without the test that it is the later one.
LinearRangeAdder_add_overwrite(self, range) ==
    IF last_is_unbounded(self) THEN [self EXCEPT !.stop = TRUE]
    ELSE IF Len(self.last) = 0
         THEN [self EXCEPT !.last = << range >>, !.stop = (range.end = Unbounded)]
         ELSE LET v == self.last[1]
                  asserted == PositionalBound_cmp(start_pos(v), start_pos(range)) # Greater
              IN  IF PositionalBound_cmp(end_pos(v), start_pos(range)) = Less
                  THEN [items |-> Append(self.items, v), last |-> << range >>,
                        stop |-> range.end = Unbounded, ok |-> self.ok /\ asserted]
                  ELSE [items |-> self.items, last |-> << [v EXCEPT !.end = range.end] >>,
                        stop |-> range.end = Unbounded, ok |-> self.ok /\ asserted]

\* LinearRangeAdder::add testing for the stop only after last.take(), so that
\* the pending interval is not put back.
LinearRangeAdder_add_drop_pending(self, range) ==
    IF last_is_unbounded(self) THEN [self EXCEPT !.last = << >>, !.stop = TRUE]
    ELSE IF Len(self.last) = 0
         THEN [self EXCEPT !.last = << range >>, !.stop = (range.end = Unbounded)]
         ELSE LET v == self.last[1]
                  asserted == PositionalBound_cmp(start_pos(v), start_pos(range)) # Greater
              IN  IF PositionalBound_cmp(end_pos(v), start_pos(range)) = Less
                  THEN [items |-> Append(self.items, v), last |-> << range >>,
                        stop |-> range.end = Unbounded, ok |-> self.ok /\ asserted]
                  ELSE LET w == IF PositionalBound_cmp(end_pos(range), end_pos(v)) = Greater
                                THEN [v EXCEPT !.end = range.end]
                                ELSE v
                       IN  [items |-> self.items, last |-> << w >>,
                            stop |-> w.end = Unbounded, ok |-> self.ok /\ asserted]

LinearRangeAdder_add(self, range) ==
    IF last_is_unbounded(self) THEN [self EXCEPT !.stop = TRUE]
    ELSE IF Len(self.last) = 0
         THEN [self EXCEPT !.last = << range >>, !.stop = (range.end = Unbounded)]
         ELSE LET v == self.last[1]
                  asserted == PositionalBound_cmp(start_pos(v), start_pos(range)) # Greater
              IN  IF PositionalBound_cmp(end_pos(v), start_pos(range)) = Less
                  THEN [items |-> Append(self.items, v), last |-> << range >>,
                        stop |-> range.end = Unbounded, ok |-> self.ok /\ asserted]
                  ELSE LET w == IF PositionalBound_cmp(end_pos(range), end_pos(v)) = Greater
                                THEN [v EXCEPT !.end = range.end]
                                ELSE v
                       IN  [items |-> self.items, last |-> << w >>,
                            stop |-> w.end = Unbounded, ok |-> self.ok /\ asserted]

LinearRangeAdder_finalize(self) ==
    IF Len(self.last) = 1 THEN Append(self.items, self.last[1]) ELSE self.items

\* ---------------------------------------------------------- RangeSet::add
\* The for loop over the drained items from index i on.  range is the
\* Option holding the interval still to be inserted (length 0 or 1).
RECURSIVE add_loop(_, _, _, _)
add_loop(items, i, range, adder) ==
    IF i > Len(items) THEN [range |-> range, adder |-> adder]
    ELSE LET item == items[i]
             take == Len(range) = 1
                     /\ PositionalBound_cmp(start_pos(range[1]), start_pos(item)) = Less
             ad1 == IF take THEN LinearRangeAdder_add(adder, range[1]) ELSE adder
             rg1 == IF take THEN << >> ELSE range
         IN  IF take /\ ad1.stop THEN [range |-> rg1, adder |-> ad1]
             ELSE LET ad2 == LinearRangeAdder_add(ad1, item)
                  IN  IF ad2.stop THEN [range |-> rg1, adder |-> ad2]
                      ELSE add_loop(items, i + 1, rg1, ad2)

\* RangeSet::add without the insertion after the loop of an interval that
\* starts after every stored interval.
RangeSet_add_no_tail(self, range) ==
    IF RangeSet_is_unbound(self) THEN self
    ELSE IF Range_is_unbound(range) THEN << range >>
    ELSE IF RangeSet_is_empty(self) THEN << range >>
    ELSE LinearRangeAdder_finalize(add_loop(self, 1, << range >>, LinearRangeAdder_new).adder)

RangeSet_add(self, range) ==
    IF RangeSet_is_unbound(self) THEN self
    ELSE IF Range_is_unbound(range) THEN << range >>
    ELSE IF RangeSet_is_empty(self) THEN << range >>
    ELSE LET res == add_loop(self, 1, << range >>, LinearRangeAdder_new)
             adder == IF Len(res.range) = 1
                      THEN LinearRangeAdder_add(res.adder, res.range[1])
                      ELSE res.adder
         IN  LinearRangeAdder_finalize(adder)

\* The merger at the end of add's merge path.
add_adder(self, range) ==
    IF RangeSet_is_unbound(self) \/ Range_is_unbound(range) \/ RangeSet_is_empty(self)
    THEN LinearRangeAdder_new
    ELSE LET res == add_loop(self, 1, << range >>, LinearRangeAdder_new)
         IN  IF Len(res.range) = 1
             THEN LinearRangeAdder_add(res.adder, res.range[1])
             ELSE res.adder

\* -------------------------------------------------------- RangeSet::union
\* left and right are the positions of the two iterators' heads; a position
\* past the end is None.
\* RangeSet::union draining self before it looks at other.
RECURSIVE union_loop_self_first(_, _, _, _, _)
union_loop_self_first(self, other, left, right, adder) ==
    IF left <= Len(self)
    THEN LET ad == LinearRangeAdder_add(adder, self[left])
         IN  IF ad.stop THEN ad
             ELSE union_loop_self_first(self, other, left + 1, right, ad)
    ELSE IF right <= Len(other)
    THEN LET ad == LinearRangeAdder_add(adder, other[right])
         IN  IF ad.stop THEN ad
             ELSE union_loop_self_first(self, other, left, right + 1, ad)
    ELSE adder

RECURSIVE union_loop(_, _, _, _, _)
union_loop(self, other, left, right, adder) ==
    LET hasL == left <= Len(self)
        hasR == right <= Len(other)
    IN  IF ~hasL /\ ~hasR THEN adder
        ELSE IF hasL /\ hasR
        THEN IF PositionalBound_cmp(start_pos(other[right]), start_pos(self[left])) = Less
             THEN LET ad == LinearRangeAdder_add(adder, other[right])
                  IN  IF ad.stop THEN ad
                      ELSE union_loop(self, other, left, right + 1, ad)
             ELSE LET ad == LinearRangeAdder_add(adder, self[left])
                  IN  IF ad.stop THEN ad
                      ELSE union_loop(self, other, left + 1, right, ad)
        ELSE IF hasL
        THEN LET ad == LinearRangeAdder_add(adder, self[left])
             IN  IF ad.stop THEN ad
                 ELSE union_loop(self, other, left + 1, right, ad)
        ELSE LET ad == LinearRangeAdder_add(adder, other[right])
             IN  IF ad.stop THEN ad
                 ELSE union_loop(self, other, left, right + 1, ad)

\* The merger at the end of union's loop; FALSE in its ok field means the
\* debug_assert of LinearRangeAdder::add failed on the way.
union_adder(self, other) ==
    IF RangeSet_is_empty(other) \/ RangeSet_is_empty(self) THEN LinearRangeAdder_new
    ELSE union_loop(self, other, 1, 1, LinearRangeAdder_new)

RangeSet_union(self, other) ==
    IF RangeSet_is_empty(other) THEN self
    ELSE IF RangeSet_is_empty(self) THEN other
    ELSE LinearRangeAdder_finalize(union_loop(self, other, 1, 1, LinearRangeAdder_new))

\* ------------------------------------------------------- RangeSet::invert
RECURSIVE invert_loop(_, _, _, _)
invert_loop(self, i, current, items) ==
    IF i > Len(self) THEN Append(items, current)
    ELSE LET item == self[i]
         IN  IF item.start = Unbounded
             THEN invert_loop(self, i + 1,
                              [current EXCEPT !.start = Bound_invert(item.end)], items)
             ELSE LET last == [current EXCEPT !.end = Bound_invert(item.start)]
                      next == Range_new(Bound_invert(item.end), Unbounded)
                      pushed == Append(items, last)
                  IN  IF item.end = Unbounded THEN pushed
                      ELSE invert_loop(self, i + 1, next, pushed)

\* RangeSet::invert without the early return for the full-domain set.
RangeSet_invert_no_unbound_case(self) ==
    IF RangeSet_is_empty(self) THEN RangeSet_unbound
    ELSE invert_loop(self, 1, Range_unbound, << >>)

RangeSet_invert(self) ==
    IF RangeSet_is_empty(self) THEN RangeSet_unbound
    ELSE IF RangeSet_is_unbound(self) THEN RangeSet_empty
    ELSE invert_loop(self, 1, Range_unbound, << >>)

\* ------------------------------------------------- derived set operations
RangeSet_intersection(self, rhs) ==
    LET left == RangeSet_invert(self)
        right == RangeSet_invert(rhs)
        inter == RangeSet_union(left, right)
    IN  RangeSet_invert(inter)

\* RangeSet::difference that inverts rhs as intersection does.
RangeSet_difference_inverting_rhs(self, rhs) ==
    LET left == RangeSet_invert(self)
        mid == RangeSet_union(left, RangeSet_invert(rhs))
    IN  RangeSet_invert(mid)

RangeSet_difference(self, rhs) ==
    LET left == RangeSet_invert(self)
        mid == RangeSet_union(left, rhs)
    IN  RangeSet_invert(mid)

\* --------------------------------------------------- RangeSet::is_disjoint
\* The two-pointer loop; a position past the end is None and ends the loop.
RECURSIVE is_disjoint_loop(_, _, _, _)
is_disjoint_loop(self, rhs, left, right) ==
    IF left > Len(self) \/ right > Len(rhs) THEN TRUE
    ELSE LET l == self[left]
             r == rhs[right]
         IN  IF PositionalBound_cmp(start_pos(r), start_pos(l)) = Equal THEN FALSE
             ELSE IF PositionalBound_cmp(start_pos(r), start_pos(l)) = Less
             THEN IF PositionalBound_cmp(end_pos(r), end_pos(l)) # Less THEN FALSE
                  ELSE is_disjoint_loop(self, rhs, left, right + 1)
             ELSE IF PositionalBound_cmp(start_pos(r), end_pos(l)) = Less THEN FALSE
                  ELSE is_disjoint_loop(self, rhs, left + 1, right)

RangeSet_is_disjoint(self, rhs) ==
    IF RangeSet_is_empty(self) \/ RangeSet_is_empty(rhs) THEN TRUE
    ELSE IF RangeSet_is_unbound(self) \/ RangeSet_is_unbound(rhs) THEN FALSE
    ELSE is_disjoint_loop(self, rhs, 1, 1)

\* ------------------------------------------------ RangeSet::is_overlapping
RECURSIVE is_overlapping_loop(_, _, _, _)
is_overlapping_loop(self, rhs, left, right) ==
    IF left > Len(self) \/ right > Len(rhs) THEN FALSE
    ELSE LET l == self[left]
             r == rhs[right]
         IN  IF PositionalBound_cmp(start_pos(l), start_pos(r)) # Less
             THEN IF PositionalBound_cmp(start_pos(l), end_pos(r)) = Less THEN TRUE
                  ELSE is_overlapping_loop(self, rhs, left, right + 1)
             ELSE IF PositionalBound_cmp(end_pos(l), start_pos(r)) = Greater THEN TRUE
                  ELSE is_overlapping_loop(self, rhs, left + 1, right)

RangeSet_is_overlapping(self, rhs) ==
    IF RangeSet_is_empty(self) \/ RangeSet_is_empty(rhs) THEN FALSE
    ELSE IF RangeSet_is_unbound(self) \/ RangeSet_is_unbound(rhs) THEN TRUE
    ELSE is_overlapping_loop(self, rhs, 1, 1)

\* ------------------------------------- From<Vec<Range<T>>> for RangeSet<T>
\* value.sort_by(start_pos cmp) is a stable sort: insert each element after
\* the elements that do not compare Greater than it.
RECURSIVE sort_insert(_, _)
sort_insert(sorted, r) ==
    IF Len(sorted) = 0 THEN << r >>
    ELSE IF PositionalBound_cmp(start_pos(sorted[Len(sorted)]), start_pos(r)) = Greater
         THEN Append(sort_insert(SubSeq(sorted, 1, Len(sorted) - 1), r), sorted[Len(sorted)])
         ELSE Append(sorted, r)

\* The bulk constructor without its sort.
sort_by_start_skipped(value) == value

RECURSIVE sort_by_start(_)
sort_by_start(value) ==
    IF Len(value) = 0 THEN << >>
    ELSE sort_insert(sort_by_start(SubSeq(value, 1, Len(value) - 1)), value[Len(value)])

RECURSIVE feed_all(_, _, _)
feed_all(value, i, adder) ==
    IF i > Len(value) THEN adder
    ELSE feed_all(value, i + 1, LinearRangeAdder_add(adder, value[i]))

RangeSet_from(value) ==
    LinearRangeAdder_finalize(feed_all(sort_by_start(value), 1, LinearRangeAdder_new))

\* The merger at the end of the bulk constructor's loop.
from_adder(value) == feed_all(sort_by_start(value), 1, LinearRangeAdder_new)

\* ------------------------------------------------------------ input sets
\* An interval is well formed when it is non-empty over a dense order.
WellFormed(r) ==
    \/ r.start = Unbounded
    \/ r.end = Unbounded
    \/ r.start.v < r.end.v
    \/ (r.start.v = r.end.v /\ r.start.k = "Included" /\ r.end.k = "Included")

Ranges == {r \in [start : Bound, end : Bound] : WellFormed(r)}

RECURSIVE SeqsUpTo(_, _)
SeqsUpTo(S, n) ==
    IF n = 0 THEN {<< >>}
    ELSE LET shorter == SeqsUpTo(S, n - 1)
         IN  shorter \cup {Append(q, e) : q \in {t \in shorter : Len(t) = n - 1}, e \in S}

BulkInputs == SeqsUpTo(Ranges, MaxBulk)

\* The sets the bulk constructor returns over all inputs.
BulkResults == {RangeSet_from(value) : value \in BulkInputs}

\* ---------------------------------------------------------- state machine
\* a, b : the two RangeSet values the calling program holds
VARIABLES a, b

vars == << a, b >>

Init ==
    /\ a = RangeSet_empty
    /\ b = RangeSet_empty

\* Repeated unions of sets holding an interval such as (2,2] grow without
\* limit, so a result longer than MaxItems is not stored.
Fits(items) == Len(items) <= MaxItems

\* a = RangeSet::empty()
Empty ==
    /\ a' = RangeSet_empty
    /\ UNCHANGED b

\* a = RangeSet::unbound()
Unbound ==
    /\ a' = RangeSet_unbound
    /\ UNCHANGED b

\* a = RangeSet::from(value), for some value of BulkInputs
Bulk ==
    \E res \in BulkResults :
        /\ Fits(res)
        /\ a' = res
        /\ UNCHANGED b

\* a.add(range)
Add ==
    \E range \in Ranges :
        /\ LET res == RangeSet_add(a, range)
           IN  Fits(res) /\ a' = res
        /\ UNCHANGED b

\* a = a.union(&b)
Union ==
    /\ LET res == RangeSet_union(a, b)
       IN  Fits(res) /\ a' = res
    /\ UNCHANGED b

\* a = a.invert()
Invert ==
    /\ LET res == RangeSet_invert(a)
       IN  Fits(res) /\ a' = res
    /\ UNCHANGED b

\* a = a.intersection(&b)
Intersection ==
    /\ LET res == RangeSet_intersection(a, b)
       IN  Fits(res) /\ a' = res
    /\ UNCHANGED b

\* a = a.difference(&b)
Difference ==
    /\ LET res == RangeSet_difference(a, b)
       IN  Fits(res) /\ a' = res
    /\ UNCHANGED b

\* b = a.clone()  (#[derive(Clone)] on RangeSet)
Clone ==
    /\ b' = a
    /\ UNCHANGED a

Next ==
    \/ Empty
    \/ Unbound
    \/ Bulk
    \/ Add
    \/ Union
    \/ Invert
    \/ Intersection
    \/ Difference
    \/ Clone

Spec == Init /\ [][Next]_vars

\* ------------------------------------------------------ claims: vocabulary
\* x is a point of the set when some stored interval contains it.
Member(set, x) == \E i \in 1..Len(set) : Range_contains(set[i], x)

\* A nonempty gap lies between two consecutive intervals.
GapBetween(x, y) ==
    /\ x.end # Unbounded
    /\ y.start # Unbounded
    /\ \/ x.end.v < y.start.v
       \/ (x.end.v = y.start.v /\ x.end.k = "Excluded" /\ y.start.k = "Excluded")

Coalesced(set) == \A i \in 1..(Len(set) - 1) : GapBetween(set[i], set[i + 1])

AllWellFormed(set) == \A i \in 1..Len(set) : WellFormed(set[i])

StrictlySorted(set) ==
    \A i \in 1..(Len(set) - 1) :
        PositionalBound_cmp(start_pos(set[i]), start_pos(set[i + 1])) = Less

\* C1: consecutive intervals of every reachable RangeSet are separated by a
\* nonempty gap (the set is maximally coalesced).
C1_Coalescing == Coalesced(a)

\* C2: every interval stored in a reachable RangeSet is non-empty; no
\* operation returns a set holding an interval such as (4,4].
C2_WellFormedness == AllWellFormed(a)

\* C3: the lower boundaries of the stored intervals are strictly increasing
\* under the Start-vs-Start ordering.
C3_Ordering == StrictlySorted(a)

\* C4: union is the point-wise union: union(a,b).contains(x) is true exactly
\* when a.contains(x) or b.contains(x).
C4_UnionPointwise ==
    LET u == RangeSet_union(a, b)
    IN  \A x \in Points :
            RangeSet_contains(u, x) <=> (RangeSet_contains(a, x) \/ RangeSet_contains(b, x))

\* A set of two intervals and a set filling the gap between them: the union
\* coalesces all three into the full-domain set.
C4_Witness ==
    /\ Len(a) = 2
    /\ Len(b) = 1
    /\ Coalesced(a) /\ AllWellFormed(a) /\ AllWellFormed(b)
    /\ ~RangeSet_is_unbound(b)
    /\ RangeSet_is_unbound(RangeSet_union(a, b))

\* C5: invert is the complement: invert(a).contains(x) is true exactly when
\* a.contains(x) is false.
C5_InvertComplement ==
    LET inv == RangeSet_invert(a)
    IN  \A x \in Points : RangeSet_contains(inv, x) <=> ~RangeSet_contains(a, x)

\* A set bounded on both sides takes the general path of invert; its
\* complement has one interval more.
C5_Witness ==
    /\ Len(a) >= 1
    /\ AllWellFormed(a)
    /\ a[1].start # Unbounded
    /\ a[Len(a)].end # Unbounded
    /\ Len(RangeSet_invert(a)) = Len(a) + 1

\* C6: add inserts exactly the given interval: after a.add(r) the set
\* contains x exactly when a contained x before or r.contains(x).
C6_AddExact ==
    \A r \in Ranges :
        LET s == RangeSet_add(a, r)
        IN  \A x \in Points :
                RangeSet_contains(s, x) <=> (RangeSet_contains(a, x) \/ Range_contains(r, x))

\* The general re-merge path of add with its early break: the inserted
\* interval is unbounded above and swallows the later stored interval.
C6_Witness ==
    /\ Len(a) = 2
    /\ Coalesced(a) /\ AllWellFormed(a)
    /\ \E r \in Ranges :
        /\ ~Range_is_unbound(r)
        /\ r.end = Unbounded
        /\ PositionalBound_cmp(start_pos(a[1]), start_pos(r)) = Less
        /\ PositionalBound_cmp(start_pos(r), start_pos(a[2])) = Less
        /\ RangeSet_is_unbound(RangeSet_add(a, r))

\* C7: double inversion: invert(invert(a)) is structurally equal to a.
C7_DoubleInversion == RangeSet_invert(RangeSet_invert(a)) = a

\* A set of two half-lines: its complement is a single bounded interval, and
\* inverting that takes the general path back.
C7_Witness ==
    /\ Len(a) = 2
    /\ Coalesced(a) /\ AllWellFormed(a)
    /\ a[1].start = Unbounded
    /\ a[2].end = Unbounded
    /\ Len(RangeSet_invert(a)) = 1

\* C8: the intersection of two reachable sets that share no point is
\* structurally the empty set.
C8_DisjointIntersectionEmpty ==
    (\A x \in Points : ~(Member(a, x) /\ Member(b, x)))
        => RangeSet_is_empty(RangeSet_intersection(a, b))

\* C9: difference is point-wise subtraction: difference(a,b).contains(x) is
\* true exactly when a.contains(x) and not b.contains(x).
C9_DifferencePointwise ==
    LET d == RangeSet_difference(a, b)
    IN  \A x \in Points :
            RangeSet_contains(d, x) <=> (RangeSet_contains(a, x) /\ ~RangeSet_contains(b, x))

\* b cuts a piece out of the middle of a, and the difference is asymmetric.
C9_Witness ==
    /\ Len(a) = 1
    /\ Len(b) = 1
    /\ AllWellFormed(a) /\ AllWellFormed(b)
    /\ Len(RangeSet_difference(a, b)) = 2
    /\ RangeSet_difference(a, b) # RangeSet_difference(b, a)

\* C10: union is commutative: union(a,b) is structurally equal to union(b,a).
C10_UnionCommutative == RangeSet_union(a, b) = RangeSet_union(b, a)

\* A normalized set: well-formed intervals, strictly sorted, coalesced.
Normalized(set) == AllWellFormed(set) /\ StrictlySorted(set) /\ Coalesced(set)

SharePoint(s, t) == \E x \in Points : Member(s, x) /\ Member(t, x)

\* C11: is_disjoint(a,b) is true exactly when the normalized sets a and b
\* share no point, in both argument orders.
C11_IsDisjointExact ==
    (Normalized(a) /\ Normalized(b)) =>
        /\ RangeSet_is_disjoint(a, b) <=> ~SharePoint(a, b)
        /\ RangeSet_is_disjoint(b, a) <=> ~SharePoint(a, b)

\* C12: is_overlapping(a,b) is true exactly when the reachable sets a and b
\* share at least one point, in both argument orders.
C12_IsOverlappingExact ==
    /\ RangeSet_is_overlapping(a, b) <=> SharePoint(a, b)
    /\ RangeSet_is_overlapping(b, a) <=> SharePoint(a, b)

\* C13: for normalized sets a and b, both nonempty and neither the
\* full-domain set, is_disjoint(a,b) = ~is_overlapping(a,b).
C13_Duality ==
    (/\ Normalized(a) /\ Normalized(b)
     /\ ~RangeSet_is_empty(a) /\ ~RangeSet_is_empty(b)
     /\ ~RangeSet_is_unbound(a) /\ ~RangeSet_is_unbound(b))
        => (RangeSet_is_disjoint(a, b) <=> ~RangeSet_is_overlapping(a, b))

\* C14: the early exit of RangeSet::contains never misses a member:
\* a.contains(x) is true exactly when some stored interval contains x.
C14_ContainsExact ==
    \A x \in Points : RangeSet_contains(a, x) <=> Member(a, x)

\* A set of two intervals with a probe found only in the second interval and
\* a probe in the gap, at which the scan stops on the second interval.
C14_Witness ==
    /\ Len(a) = 2
    /\ Normalized(a)
    /\ \E x \in Points : Range_contains(a[2], x) /\ RangeSet_contains(a, x)
    /\ \E x \in Points :
        /\ PositionalBound_partial_cmp(start_pos(a[1]), x) = Less
        /\ PositionalBound_partial_cmp(start_pos(a[2]), x) # Less
        /\ ~RangeSet_contains(a, x)

\* ------------------------------------------- PositionalBound::cmp in isolation
\* The specifications of single functions reuse the two variables: a holds
\* the inputs and b what the function returned for them.
PositionalBounds == {Start(x) : x \in Bound} \cup {End(x) : x \in Bound}

\* Ordering::reverse
Ordering_reverse(o) == IF o = Less THEN Greater ELSE IF o = Greater THEN Less ELSE Equal

CmpInit ==
    /\ a \in {<< p, q, r >> : p \in PositionalBounds, q \in PositionalBounds,
                              r \in PositionalBounds}
    /\ b = << >>

\* b = (a1.cmp(a2), a2.cmp(a1), a2.cmp(a3), a1.cmp(a3))
CmpApply ==
    /\ b = << >>
    /\ b' = << PositionalBound_cmp(a[1], a[2]), PositionalBound_cmp(a[2], a[1]),
               PositionalBound_cmp(a[2], a[3]), PositionalBound_cmp(a[1], a[3]) >>
    /\ UNCHANGED a

CmpNext == CmpApply

SpecCmp == CmpInit /\ [][CmpNext]_vars

\* C15: PositionalBound::cmp is a consistent total preorder: cmp(p,q) is the
\* reverse of cmp(q,p), and p <= q and q <= r imply p <= r.
C15_CmpTotalPreorder ==
    Len(b) = 4 =>
        /\ b[2] = Ordering_reverse(b[1])
        /\ (b[1] # Greater /\ b[3] # Greater) => b[4] # Greater

\* A chain across the two roles: a lower boundary Equal to an upper boundary
\* that is in turn strictly below another boundary.
C15_Witness ==
    /\ Len(b) = 4
    /\ a[1].pos # a[2].pos
    /\ b[1] = Equal
    /\ b[3] = Less
    /\ b[4] = Less

\* ------------------------------------------- LinearRangeAdder in isolation
\* a holds the intervals fed to the merger so far, b the merger.  Release
\* builds accept any interval, so Feed does not require sorted input.
AdderInit ==
    /\ a = << >>
    /\ b = LinearRangeAdder_new

\* adder.add(range)
AdderFeed ==
    \E range \in Ranges :
        /\ Len(a) < MaxFeed
        /\ a' = Append(a, range)
        /\ b' = LinearRangeAdder_add(b, range)

AdderNext == AdderFeed

SpecAdder == AdderInit /\ [][AdderNext]_vars

\* The later of two upper boundaries under the End-vs-End ordering.
LaterEnd(x, y) == IF PositionalBound_cmp(End(y), End(x)) = Greater THEN y ELSE x

\* C16: with a pending interval v and an incoming interval r that does not
\* start below v, add flushes v and makes r pending only if a nonempty gap
\* lies between v and r; otherwise it keeps one pending interval, v widened
\* to the later of the two upper boundaries.
C16_CoalescingStep ==
    \A r \in Ranges :
        (/\ Len(b.last) = 1
         /\ PositionalBound_cmp(start_pos(b.last[1]), start_pos(r)) # Greater) =>
            LET v == b.last[1]
                n == LinearRangeAdder_add(b, r)
            IN  IF GapBetween(v, r)
                THEN n.items = Append(b.items, v) /\ n.last = << r >>
                ELSE /\ n.items = b.items
                     /\ n.last = << [v EXCEPT !.end = LaterEnd(v.end, r.end)] >>

\* C17: once add has returned true, every later add returns true and leaves
\* the pending interval and the output unchanged, so finalize returns the
\* same set whether or not the caller goes on feeding.
C17_StopStable ==
    [][b.stop =>
        /\ b'.stop
        /\ b'.items = b.items
        /\ b'.last = b.last
        /\ LinearRangeAdder_finalize(b') = LinearRangeAdder_finalize(b)]_vars

\* The merger has flushed an interval, stopped on a pending interval that is
\* unbounded above, and has since been fed an interval bounded above.
C17_Witness ==
    /\ Len(a) >= 3
    /\ b.stop
    /\ Len(b.items) >= 1
    /\ a[Len(a)].end # Unbounded

\* The bulk constructor's merger never failed its assertion, over all inputs.
BulkAsserted == \A value \in BulkInputs : from_adder(value).ok

\* C18: on the sets reachable through the public operations, no run of
\* add, union, intersection, difference or bulk construction passes the
\* merger an interval that starts below the pending interval.  Bulk
\* construction reads neither a nor b, so its conjunct is evaluated in the
\* one state where both are empty.
C18_AssertNeverFails ==
    /\ \A r \in Ranges : add_adder(a, r).ok
    /\ union_adder(a, b).ok
    /\ union_adder(b, a).ok
    /\ union_adder(RangeSet_invert(a), RangeSet_invert(b)).ok
    /\ union_adder(RangeSet_invert(a), b).ok
    /\ (RangeSet_is_empty(a) /\ RangeSet_is_empty(b)) => BulkAsserted

\* Two sets whose intervals interleave, so that union alternates between its
\* operands and the merger flushes at least once.
C18_Witness ==
    /\ Len(a) = 2
    /\ Len(b) >= 1
    /\ PositionalBound_cmp(start_pos(a[1]), start_pos(b[1])) = Less
    /\ PositionalBound_cmp(start_pos(b[1]), start_pos(a[2])) = Less
    /\ Len(union_adder(a, b).items) >= 1

\* ------------------------------------- incremental against bulk construction
\* a holds a collection X of intervals in some order, b the set obtained from
\* RangeSet::empty() by one add per interval of X, in an order of its own.
OrderInit ==
    /\ a = << >>
    /\ b = RangeSet_empty

\* X gets one more interval, which is added to the set: b.add(range)
OrderPush ==
    \E range \in Ranges :
        /\ Len(a) < MaxOrder
        /\ a' = Append(a, range)
        /\ b' = RangeSet_add(b, range)

\* X is reordered by exchanging two neighbours; the set is left alone.
OrderSwap ==
    \E i \in 1..(Len(a) - 1) :
        /\ a' = [a EXCEPT ![i] = a[i + 1], ![i + 1] = a[i]]
        /\ UNCHANGED b

OrderNext == OrderPush \/ OrderSwap

SpecOrder == OrderInit /\ [][OrderNext]_vars

\* C19: adding the intervals of X one by one, in any order, gives the set
\* that bulk construction gives from X, in whatever order X is handed over.
C19_OrderIrrelevant == b = RangeSet_from(a)

\* Three intervals handed over out of lower-boundary order, two of which the
\* adds have merged.
C19_Witness ==
    /\ Len(a) = 3
    /\ PositionalBound_cmp(start_pos(a[1]), start_pos(a[2])) = Greater
    /\ Len(b) = 2
    /\ b = RangeSet_add(RangeSet_add(RangeSet_add(RangeSet_empty, a[1]), a[2]), a[3])

====
